---- MODULE Spec2Model ----
(***************************************************************************)
(* Model of the pronunciation checker.                                     *)
(*                                                                         *)
(*  - calculate_word_accuracy of app.py, one step per iteration of its     *)
(*    outer loop, and calculate_word_accuracy of test_model_accuracy.py    *)
(*    (names prefixed tm_), run on the same pair of input texts;           *)
(*  - the Streamlit script main() of app.py, one step per script run, the  *)
(*    5 second capture loop one step per chunk.                            *)
(*                                                                         *)
(* A text is a sequence of one-character strings.  A Python float that the *)
(* scorer holds is kept as the exact fraction <<numerator, denominator>>   *)
(* in lowest terms: every comparison the code makes (similarity >          *)
(* best_match_score, best_match_score > 0) is between quotients of small   *)
(* integers, where the float comparison and the exact one agree.           *)
(***************************************************************************)
EXTENDS Integers, Sequences, FiniteSets, TLC

VARIABLES
    transcribed_text, expected_text,
    pc, transcribed_words, expected_words, total_similarity, matched_flags, k, result,
    tm_pc, tm_transcribed_words, tm_expected_words, tm_total_similarity,
    tm_matched_flags, tm_k, tm_result,
    recording_state, audio_data, recognized_text, user_text, text_input,
    models_loaded, script, chunks_read

scorer_vars == <<transcribed_text, expected_text,
                 pc, transcribed_words, expected_words, total_similarity,
                 matched_flags, k, result>>
tm_vars == <<tm_pc, tm_transcribed_words, tm_expected_words, tm_total_similarity,
             tm_matched_flags, tm_k, tm_result>>
app_vars == <<recording_state, audio_data, recognized_text, user_text, text_input,
              models_loaded, script, chunks_read>>
vars == <<scorer_vars, tm_vars, app_vars>>

----------------------------------------------------------------------------
(* Bounds and input sets                                                   *)

MaxLen == 3

(* Chunks of one capture; the code reads int(5 * 16000 / 1024) = 78.        *)
MaxChunks == 2

Whitespace == {" "}
Punctuation == {"."}
Alphabet == {"a", "B"} \cup Whitespace \cup Punctuation

TheQuickBrownFox ==
    <<"t","h","e"," ","q","u","i","c","k"," ","b","r","o","w","n"," ","f","o","x">>
TheQuickFox == <<"t","h","e"," ","q","u","i","c","k"," ","f","o","x">>

ExampleTexts == {TheQuickBrownFox, TheQuickFox}

BoundedTexts == UNION {[1..n -> Alphabet] : n \in 0..MaxLen}

Texts == BoundedTexts \cup ExampleTexts

----------------------------------------------------------------------------
(* Exact arithmetic on the scorer's floats                                 *)

RECURSIVE Gcd(_, _)
Gcd(a, b) == IF b = 0 THEN a ELSE Gcd(b, a % b)

Frac(n, d) == LET g == Gcd(n, d) IN <<n \div g, d \div g>>

Zero == <<0, 1>>
Hundred == <<100, 1>>

FracAdd(x, y) == Frac(x[1] * y[2] + y[1] * x[2], x[2] * y[2])
FracGT(x, y) == x[1] * y[2] > y[1] * x[2]
FracLE(x, y) == ~FracGT(x, y)

Max(a, b) == IF a > b THEN a ELSE b
Min(a, b) == IF a < b THEN a ELSE b

----------------------------------------------------------------------------
(* str.lower, str.strip, str.split, re.sub                                 *)

LowerMap == [c \in {"B"} |-> "b"]

lower(text) ==
    [i \in 1..Len(text) |-> IF text[i] \in DOMAIN LowerMap THEN LowerMap[text[i]] ELSE text[i]]

RECURSIVE lstrip(_)
lstrip(text) ==
    IF text # <<>> /\ Head(text) \in Whitespace THEN lstrip(Tail(text)) ELSE text

RECURSIVE rstrip(_)
rstrip(text) ==
    IF text # <<>> /\ text[Len(text)] \in Whitespace
    THEN rstrip(SubSeq(text, 1, Len(text) - 1))
    ELSE text

strip(text) == rstrip(lstrip(text))

(* text.split(): the maximal runs of non-whitespace characters, in order.  *)
(* cur is the word being read, acc the words already emitted.              *)
RECURSIVE SplitFrom(_, _, _, _)
SplitFrom(text, i, cur, acc) ==
    IF i > Len(text)
    THEN IF cur = <<>> THEN acc ELSE Append(acc, cur)
    ELSE IF text[i] \in Whitespace
         THEN SplitFrom(text, i + 1, <<>>, IF cur = <<>> THEN acc ELSE Append(acc, cur))
         ELSE SplitFrom(text, i + 1, Append(cur, text[i]), acc)

(* text.split(" "): every separator ends a word, the empty ones included.  *)
RECURSIVE SplitOnEachFrom(_, _, _, _)
SplitOnEachFrom(text, i, cur, acc) ==
    IF i > Len(text)
    THEN Append(acc, cur)
    ELSE IF text[i] \in Whitespace
         THEN SplitOnEachFrom(text, i + 1, <<>>, Append(acc, cur))
         ELSE SplitOnEachFrom(text, i + 1, Append(cur, text[i]), acc)

split_on_each_space(text) == SplitOnEachFrom(text, 1, <<>>, <<>>)

split(text) == SplitFrom(text, 1, <<>>, <<>>)

(* re.sub(r'[^\w\s]', '', text) *)
remove_punctuation(text) == SelectSeq(text, LAMBDA c : c \notin Punctuation)

clean_text(text) == strip(lower(text))

tm_clean_text(text) == strip(lower(remove_punctuation(text)))

----------------------------------------------------------------------------
(* Levenshtein.distance and the similarity of two words                    *)

RECURSIVE distance(_, _)
distance(a, b) ==
    IF a = <<>> THEN Len(b)
    ELSE IF b = <<>> THEN Len(a)
    ELSE IF Head(a) = Head(b) THEN distance(Tail(a), Tail(b))
    ELSE 1 + Min(distance(Tail(a), Tail(b)),
                 Min(distance(Tail(a), b), distance(a, Tail(b))))

(* distance / max(...) without the "1.0 -" *)
similarity_not_complemented(trans_word, exp_word) ==
    LET m == Max(Len(trans_word), Len(exp_word)) IN
    IF m = 0 THEN [raised |-> TRUE, value |-> Zero]
    ELSE [raised |-> FALSE, value |-> Frac(distance(trans_word, exp_word), m)]

(* similarity = 1.0 - (distance / max(len(trans_word), len(exp_word)));    *)
(* raised is the ZeroDivisionError of a zero divisor.                      *)
similarity(trans_word, exp_word) ==
    LET m == Max(Len(trans_word), Len(exp_word)) IN
    IF m = 0 THEN [raised |-> TRUE, value |-> Zero]
    ELSE [raised |-> FALSE, value |-> Frac(m - distance(trans_word, exp_word), m)]

----------------------------------------------------------------------------
(* calculate_word_accuracy of app.py                                       *)

NoMatch == [score |-> Zero, index |-> -1, raised |-> FALSE]

(* Inner loop that keeps the last of several equally similar words.        *)
RECURSIVE ScanLastTie(_, _, _, _, _)
ScanLastTie(trans_word, exp_words, flags, i, best) ==
    IF i >= Len(exp_words) \/ best.raised THEN best
    ELSE IF flags[i + 1] THEN ScanLastTie(trans_word, exp_words, flags, i + 1, best)
    ELSE LET s == similarity(trans_word, exp_words[i + 1]) IN
         IF s.raised THEN [best EXCEPT !.raised = TRUE]
         ELSE IF ~FracGT(best.score, s.value)
              THEN ScanLastTie(trans_word, exp_words, flags, i + 1,
                               [score |-> s.value, index |-> i, raised |-> FALSE])
              ELSE ScanLastTie(trans_word, exp_words, flags, i + 1, best)

best_match_last_tie(trans_word, exp_words, flags) ==
    ScanLastTie(trans_word, exp_words, flags, 0, NoMatch)

(* Inner loop without the "if not matched_flags[i]" test.                  *)
RECURSIVE ScanAll(_, _, _, _, _)
ScanAll(trans_word, exp_words, flags, i, best) ==
    IF i >= Len(exp_words) \/ best.raised THEN best
    ELSE LET s == similarity(trans_word, exp_words[i + 1]) IN
         IF s.raised THEN [best EXCEPT !.raised = TRUE]
         ELSE IF FracGT(s.value, best.score)
              THEN ScanAll(trans_word, exp_words, flags, i + 1,
                           [score |-> s.value, index |-> i, raised |-> FALSE])
              ELSE ScanAll(trans_word, exp_words, flags, i + 1, best)

best_match_ignoring_flags(trans_word, exp_words, flags) ==
    ScanAll(trans_word, exp_words, flags, 0, NoMatch)

(* for i, exp_word in enumerate(expected_words): indices are the code's,   *)
(* from 0; best is (best_match_score, best_match_index).                   *)
RECURSIVE Scan(_, _, _, _, _)
Scan(trans_word, exp_words, flags, i, best) ==
    IF i >= Len(exp_words) \/ best.raised THEN best
    ELSE IF flags[i + 1] THEN Scan(trans_word, exp_words, flags, i + 1, best)
    ELSE LET s == similarity(trans_word, exp_words[i + 1]) IN
         IF s.raised THEN [best EXCEPT !.raised = TRUE]
         ELSE IF FracGT(s.value, best.score)
              THEN Scan(trans_word, exp_words, flags, i + 1,
                        [score |-> s.value, index |-> i, raised |-> FALSE])
              ELSE Scan(trans_word, exp_words, flags, i + 1, best)

best_match(trans_word, exp_words, flags) ==
    Scan(trans_word, exp_words, flags, 0, NoMatch)

(* The update that adds the similarity but sets no flag.                   *)
update_without_flag(total, flags, best) ==
    IF FracGT(best.score, Zero) /\ best.index # -1
    THEN [total |-> FracAdd(total, best.score), flags |-> flags]
    ELSE [total |-> total, flags |-> flags]

(* if best_match_score > 0 and best_match_index != -1: ...                 *)
update(total, flags, best) ==
    IF FracGT(best.score, Zero) /\ best.index # -1
    THEN [total |-> FracAdd(total, best.score),
          flags |-> [flags EXCEPT ![best.index + 1] = TRUE]]
    ELSE [total |-> total, flags |-> flags]

(* Early returns that score an empty expected text 100.0 whatever was said. *)
early_return_expected_only(trans_words, exp_words) ==
    IF exp_words = <<>>
    THEN [returns |-> TRUE, value |-> Hundred]
    ELSE IF trans_words = <<>>
         THEN [returns |-> TRUE, value |-> Zero]
         ELSE [returns |-> FALSE, value |-> Zero]

(* if not expected_words: return 100.0 if not transcribed_words else 0.0   *)
(* if not transcribed_words: return 0.0                                    *)
early_return(trans_words, exp_words) ==
    IF exp_words = <<>>
    THEN [returns |-> TRUE, value |-> IF trans_words = <<>> THEN Hundred ELSE Zero]
    ELSE IF trans_words = <<>>
         THEN [returns |-> TRUE, value |-> Zero]
         ELSE [returns |-> FALSE, value |-> Zero]

(* (total_similarity / len(expected_words)) * 100 *)
final_score(total, exp_words) ==
    IF Len(exp_words) = 0
    THEN [raised |-> TRUE, value |-> Zero]
    ELSE [raised |-> FALSE, value |-> Frac(100 * total[1], total[2] * Len(exp_words))]

Call ==
    /\ pc = "call"
    /\ LET tw == split(clean_text(transcribed_text))
           ew == split(clean_text(expected_text))
           er == early_return(tw, ew)
       IN /\ transcribed_words' = tw
          /\ expected_words' = ew
          /\ IF er.returns
             THEN /\ pc' = "return"
                  /\ result' = er.value
                  /\ UNCHANGED <<total_similarity, matched_flags>>
             ELSE /\ pc' = "loop"
                  /\ total_similarity' = Zero
                  /\ matched_flags' = [i \in 1..Len(ew) |-> FALSE]
                  /\ UNCHANGED result
    /\ UNCHANGED <<transcribed_text, expected_text, k, tm_vars, app_vars>>

Iterate ==
    /\ pc = "loop"
    /\ k < Len(transcribed_words)
    /\ LET best == best_match(transcribed_words[k + 1], expected_words, matched_flags)
           u == update(total_similarity, matched_flags, best)
       IN IF best.raised
          THEN /\ pc' = "raise"
               /\ UNCHANGED <<total_similarity, matched_flags, k>>
          ELSE /\ total_similarity' = u.total
               /\ matched_flags' = u.flags
               /\ k' = k + 1
               /\ pc' = pc
    /\ UNCHANGED <<transcribed_text, expected_text, transcribed_words, expected_words,
                   result, tm_vars, app_vars>>

Return ==
    /\ pc = "loop"
    /\ k = Len(transcribed_words)
    /\ LET f == final_score(total_similarity, expected_words)
       IN IF f.raised
          THEN pc' = "raise" /\ UNCHANGED result
          ELSE pc' = "return" /\ result' = f.value
    /\ UNCHANGED <<transcribed_text, expected_text, transcribed_words, expected_words,
                   total_similarity, matched_flags, k, tm_vars, app_vars>>

----------------------------------------------------------------------------
(* calculate_word_accuracy of test_model_accuracy.py                       *)

RECURSIVE tm_Scan(_, _, _, _, _)
tm_Scan(trans_word, exp_words, flags, i, best) ==
    IF i >= Len(exp_words) \/ best.raised THEN best
    ELSE IF flags[i + 1] THEN tm_Scan(trans_word, exp_words, flags, i + 1, best)
    ELSE LET s == similarity(trans_word, exp_words[i + 1]) IN
         IF s.raised THEN [best EXCEPT !.raised = TRUE]
         ELSE IF FracGT(s.value, best.score)
              THEN tm_Scan(trans_word, exp_words, flags, i + 1,
                           [score |-> s.value, index |-> i, raised |-> FALSE])
              ELSE tm_Scan(trans_word, exp_words, flags, i + 1, best)

tm_best_match(trans_word, exp_words, flags) ==
    tm_Scan(trans_word, exp_words, flags, 0, NoMatch)

(* if best_match_score > 0:                                                *)
(*     total_similarity += best_match_score                                *)
(*     if best_match_index != -1: matched_flags[best_match_index] = True   *)
tm_update(total, flags, best) ==
    IF FracGT(best.score, Zero)
    THEN [total |-> FracAdd(total, best.score),
          flags |-> IF best.index # -1
                    THEN [flags EXCEPT ![best.index + 1] = TRUE]
                    ELSE flags]
    ELSE [total |-> total, flags |-> flags]

tm_early_return(trans_words, exp_words) ==
    IF exp_words = <<>>
    THEN [returns |-> TRUE, value |-> IF trans_words = <<>> THEN Hundred ELSE Zero]
    ELSE IF trans_words = <<>>
         THEN [returns |-> TRUE, value |-> Zero]
         ELSE [returns |-> FALSE, value |-> Zero]

tm_final_score(total, exp_words) ==
    IF Len(exp_words) = 0
    THEN [raised |-> TRUE, value |-> Zero]
    ELSE [raised |-> FALSE, value |-> Frac(100 * total[1], total[2] * Len(exp_words))]

tm_Call ==
    /\ tm_pc = "call"
    /\ LET tw == split(tm_clean_text(transcribed_text))
           ew == split(tm_clean_text(expected_text))
           er == tm_early_return(tw, ew)
       IN /\ tm_transcribed_words' = tw
          /\ tm_expected_words' = ew
          /\ IF er.returns
             THEN /\ tm_pc' = "return"
                  /\ tm_result' = er.value
                  /\ UNCHANGED <<tm_total_similarity, tm_matched_flags>>
             ELSE /\ tm_pc' = "loop"
                  /\ tm_total_similarity' = Zero
                  /\ tm_matched_flags' = [i \in 1..Len(ew) |-> FALSE]
                  /\ UNCHANGED tm_result
    /\ UNCHANGED <<tm_k, scorer_vars, app_vars>>

tm_Iterate ==
    /\ tm_pc = "loop"
    /\ tm_k < Len(tm_transcribed_words)
    /\ LET best == tm_best_match(tm_transcribed_words[tm_k + 1], tm_expected_words,
                                 tm_matched_flags)
           u == tm_update(tm_total_similarity, tm_matched_flags, best)
       IN IF best.raised
          THEN /\ tm_pc' = "raise"
               /\ UNCHANGED <<tm_total_similarity, tm_matched_flags, tm_k>>
          ELSE /\ tm_total_similarity' = u.total
               /\ tm_matched_flags' = u.flags
               /\ tm_k' = tm_k + 1
               /\ tm_pc' = tm_pc
    /\ UNCHANGED <<tm_transcribed_words, tm_expected_words, tm_result,
                   scorer_vars, app_vars>>

tm_Return ==
    /\ tm_pc = "loop"
    /\ tm_k = Len(tm_transcribed_words)
    /\ LET f == tm_final_score(tm_total_similarity, tm_expected_words)
       IN IF f.raised
          THEN tm_pc' = "raise" /\ UNCHANGED tm_result
          ELSE tm_pc' = "return" /\ tm_result' = f.value
    /\ UNCHANGED <<tm_transcribed_words, tm_expected_words, tm_total_similarity,
                   tm_matched_flags, tm_k, scorer_vars, app_vars>>

----------------------------------------------------------------------------
(* The Streamlit session before its first script run                        *)

AppIdle ==
    /\ recording_state = "stopped"
    /\ audio_data = <<>>
    /\ recognized_text = ""
    /\ user_text = ""
    /\ text_input = "Hello world, this is a test."
    /\ models_loaded = TRUE
    /\ script = "idle"
    /\ chunks_read = 0

----------------------------------------------------------------------------
(* The two scorers on every pair of input texts                            *)

Init ==
    /\ transcribed_text \in Texts
    /\ expected_text \in Texts
    /\ pc = "call"
    /\ transcribed_words = <<>>
    /\ expected_words = <<>>
    /\ total_similarity = Zero
    /\ matched_flags = <<>>
    /\ k = 0
    /\ result = Zero
    /\ tm_pc = "call"
    /\ tm_transcribed_words = <<>>
    /\ tm_expected_words = <<>>
    /\ tm_total_similarity = Zero
    /\ tm_matched_flags = <<>>
    /\ tm_k = 0
    /\ tm_result = Zero
    /\ AppIdle

(* The two functions share no state; they are run alternately, app.py's   *)
(* first, so that both stand after the same number of transcribed words.   *)
Finished == {"return", "raise"}

AppTurn ==
    \/ tm_pc \in Finished
    \/ pc = "call"
    \/ pc = "loop" /\ tm_pc = "loop" /\ k <= tm_k

TmTurn == pc \in Finished \/ ~AppTurn

Next ==
    \/ AppTurn /\ Call
    \/ AppTurn /\ Iterate
    \/ AppTurn /\ Return
    \/ TmTurn /\ tm_Call
    \/ TmTurn /\ tm_Iterate
    \/ TmTurn /\ tm_Return

Spec == Init /\ [][Next]_vars

----------------------------------------------------------------------------
(* main() of app.py: the Streamlit session.  script is where the script    *)
(* runner stands: "idle" (the last run ended, the page waits for the user),*)
(* "rerun" (a run is due: st.rerun() or a widget event), "capture" (inside *)
(* the sd.InputStream block).                                              *)

Phrases == {"Hello world, this is a test.", "Hello"}
Transcripts == {"", "hello world this is a test", "hello word"}
Chunk == "chunk"

ScorerIdle ==
    /\ transcribed_text = <<>>
    /\ expected_text = <<>>
    /\ pc = "call"
    /\ transcribed_words = <<>>
    /\ expected_words = <<>>
    /\ total_similarity = Zero
    /\ matched_flags = <<>>
    /\ k = 0
    /\ result = Zero
    /\ tm_pc = "call"
    /\ tm_transcribed_words = <<>>
    /\ tm_expected_words = <<>>
    /\ tm_total_similarity = Zero
    /\ tm_matched_flags = <<>>
    /\ tm_k = 0
    /\ tm_result = Zero

(* The session after its first script run: lines 119-120 have set          *)
(* recording_state, the models are loaded or not, the widgets are drawn.   *)
AppInit ==
    /\ recording_state = "stopped"
    /\ audio_data = <<>>
    /\ recognized_text = ""
    /\ user_text = ""
    /\ text_input = "Hello world, this is a test."
    /\ models_loaded \in BOOLEAN
    /\ script = "idle"
    /\ chunks_read = 0
    /\ ScorerIdle

(* if st.button("Record"): the widgets exist only when the models loaded.  *)
ClickRecord ==
    /\ script = "idle"
    /\ models_loaded
    /\ recording_state' = "recording"
    /\ audio_data' = <<>>
    /\ script' = "rerun"
    /\ UNCHANGED <<recognized_text, user_text, text_input, models_loaded, chunks_read,
                   scorer_vars, tm_vars>>

(* Any other widget event (the text input edited, Read Aloud clicked, the  *)
(* voice chosen): the script is run again with the Record button not set.  *)
Interact ==
    /\ script = "idle"
    /\ models_loaded
    /\ text_input' \in Phrases
    /\ script' = "rerun"
    /\ UNCHANGED <<recording_state, audio_data, recognized_text, user_text,
                   models_loaded, chunks_read, scorer_vars, tm_vars>>

(* with sd.InputStream(...) as stream: the stream opens.                   *)
OpenStream ==
    /\ script = "rerun"
    /\ recording_state = "recording"
    /\ script' = "capture"
    /\ chunks_read' = 0
    /\ UNCHANGED <<recording_state, audio_data, recognized_text, user_text, text_input,
                   models_loaded, scorer_vars, tm_vars>>

(* sd.InputStream(...) raises (no input device): the run ends there.       *)
OpenStreamFails ==
    /\ script = "rerun"
    /\ recording_state = "recording"
    /\ script' = "idle"
    /\ UNCHANGED <<recording_state, audio_data, recognized_text, user_text, text_input,
                   models_loaded, chunks_read, scorer_vars, tm_vars>>

(* data, _ = stream.read(1024); st.session_state.audio_data.append(data)   *)
ReadChunk ==
    /\ script = "capture"
    /\ chunks_read < MaxChunks
    /\ audio_data' = Append(audio_data, Chunk)
    /\ chunks_read' = chunks_read + 1
    /\ UNCHANGED <<recording_state, recognized_text, user_text, text_input,
                   models_loaded, script, scorer_vars, tm_vars>>

(* finally: recording_state = 'processing'; st.rerun()                     *)
Finally ==
    /\ recording_state' = "processing"
    /\ script' = "rerun"
    /\ chunks_read' = 0
    /\ UNCHANGED <<audio_data, recognized_text, user_text, text_input,
                   models_loaded, scorer_vars, tm_vars>>

(* The for loop has read all its chunks.                                   *)
CaptureDone ==
    /\ script = "capture"
    /\ chunks_read = MaxChunks
    /\ Finally

(* stream.read raises before the loop is over.                             *)
ReadFails ==
    /\ script = "capture"
    /\ chunks_read < MaxChunks
    /\ Finally

(* if recording_state == 'processing': if session_state.get('audio_data'): *)
Process ==
    /\ script = "rerun"
    /\ recording_state = "processing"
    /\ audio_data # <<>>
    /\ recognized_text' \in Transcripts
    /\ user_text' = text_input
    /\ recording_state' = "stopped"
    /\ audio_data' = <<>>
    /\ script' = "rerun"
    /\ UNCHANGED <<text_input, models_loaded, chunks_read, scorer_vars, tm_vars>>

(* 'processing' with no audio_data: neither block runs, the results are    *)
(* drawn and the run ends.                                                 *)
ProcessNothing ==
    /\ script = "rerun"
    /\ recording_state = "processing"
    /\ audio_data = <<>>
    /\ script' = "idle"
    /\ UNCHANGED <<recording_state, audio_data, recognized_text, user_text, text_input,
                   models_loaded, chunks_read, scorer_vars, tm_vars>>

(* 'stopped': the results are drawn and the run ends.                      *)
ShowResults ==
    /\ script = "rerun"
    /\ recording_state = "stopped"
    /\ script' = "idle"
    /\ UNCHANGED <<recording_state, audio_data, recognized_text, user_text, text_input,
                   models_loaded, chunks_read, scorer_vars, tm_vars>>

ScriptRun ==
    \/ OpenStream
    \/ OpenStreamFails
    \/ ReadChunk
    \/ CaptureDone
    \/ ReadFails
    \/ Process
    \/ ProcessNothing
    \/ ShowResults

AppNext ==
    \/ ClickRecord
    \/ Interact
    \/ ScriptRun

(* A run that is due is executed, the user keeps touching the page, and an *)
(* input device that is tried again and again opens in the end.  Nothing   *)
(* makes the user click Record.                                            *)
AppSpec ==
    /\ AppInit
    /\ [][AppNext]_vars
    /\ WF_vars(ScriptRun)
    /\ WF_vars(Interact)
    /\ SF_vars(OpenStream)

----------------------------------------------------------------------------
(* Properties of calculate_word_accuracy (under Spec)                      *)

Flagged(flags) == {i \in DOMAIN flags : flags[i]}

NoRepeatedWord(words) ==
    \A i, j \in DOMAIN words : words[i] = words[j] => i = j

IsFoxExample == transcribed_text = TheQuickBrownFox /\ expected_text = TheQuickFox

(* C1, as claimed: for transcribed "the quick brown fox" and expected      *)
(* "the quick fox" the function returns 100.0, the three expected words    *)
(* each matched with similarity 1.                                         *)
C1_ExtraWordIgnored ==
    (IsFoxExample /\ pc = "return") =>
        /\ matched_flags = <<TRUE, TRUE, TRUE>>
        /\ result = Hundred

(* C1, amended: for transcribed "the quick brown fox" and expected         *)
(* "the quick fox", "the" and "quick" are matched with similarity 1,       *)
(* "brown" consumes the expected word "fox" with similarity 1/5, the       *)
(* transcribed "fox" then finds no unmatched word, and the function        *)
(* returns (11/5) / 3 * 100 = 220/3, about 73.33.                          *)
C1_ExtraWordConsumesFox ==
    IsFoxExample =>
        /\ pc = "loop" /\ k = 2 => matched_flags = <<TRUE, TRUE, FALSE>>
                                   /\ total_similarity = <<2, 1>>
        /\ pc = "loop" /\ k \in {3, 4} => matched_flags = <<TRUE, TRUE, TRUE>>
                                          /\ total_similarity = <<11, 5>>
        /\ pc = "return" => result = <<220, 3>>

C1_Witness == IsFoxExample /\ pc = "return" /\ k = 4

(* C2: the returned score lies in [0, 100], and throughout the loop        *)
(* total_similarity is at least 0 and at most the number of expected       *)
(* words flagged as matched.                                               *)
C2_ScoreInRange ==
    /\ pc = "return" => FracLE(Zero, result) /\ FracLE(result, Hundred)
    /\ pc = "loop" =>
          /\ FracLE(Zero, total_similarity)
          /\ FracLE(total_similarity, <<Cardinality(Flagged(matched_flags)), 1>>)

C2_Witness ==
    /\ pc = "return"
    /\ k >= 1
    /\ Cardinality(Flagged(matched_flags)) = 1
    /\ total_similarity[2] # 1
    /\ FracGT(result, Zero)
    /\ FracGT(Hundred, result)

(* C3: a text whose normalized word sequence is non-empty and has no       *)
(* repeated word, scored against itself, gives exactly 100.0.              *)
C3_SelfScoreIsHundred ==
    ( /\ pc = "return"
      /\ transcribed_text = expected_text
      /\ expected_words # <<>>
      /\ NoRepeatedWord(expected_words) ) => result = Hundred

C3_Witness ==
    /\ pc = "return"
    /\ transcribed_text = expected_text
    /\ Len(expected_words) >= 2
    /\ NoRepeatedWord(expected_words)
    /\ k = Len(transcribed_words)

(* C4: when one of the two word sequences is empty the function returns    *)
(* 100.0 if both are empty and 0.0 otherwise, and never enters the loop.   *)
C4_EmptySequences ==
    (pc # "call" /\ (transcribed_words = <<>> \/ expected_words = <<>>)) =>
        /\ pc = "return"
        /\ k = 0
        /\ matched_flags = <<>>
        /\ result = IF transcribed_words = <<>> /\ expected_words = <<>>
                    THEN Hundred ELSE Zero

C4_Witness ==
    /\ pc = "return"
    /\ expected_words = <<>>
    /\ transcribed_words # <<>>
    /\ result = Zero

(* C5: no call raises: the normalizer emits no empty word, so no           *)
(* similarity is computed with divisor 0, and the final division is        *)
(* reached only with a non-empty expected sequence.                        *)
C5_NeverRaises ==
    /\ pc # "raise"
    /\ tm_pc # "raise"
    /\ \A i \in DOMAIN transcribed_words : transcribed_words[i] # <<>>
    /\ \A i \in DOMAIN expected_words : expected_words[i] # <<>>
    /\ \A i \in DOMAIN tm_transcribed_words : tm_transcribed_words[i] # <<>>
    /\ \A i \in DOMAIN tm_expected_words : tm_expected_words[i] # <<>>
    /\ pc = "loop" => Len(expected_words) > 0
    /\ tm_pc = "loop" => Len(tm_expected_words) > 0

C5_Witness ==
    /\ pc = "return"
    /\ tm_pc = "return"
    /\ transcribed_text = <<".", " ", ".">>
    /\ expected_text = <<" ", "a", " ">>
    /\ k = 2

(* C6: during the loop matched_flags has one entry per expected word and   *)
(* at most min(words processed, expected words) of them are set; a step    *)
(* resets no flag, sets at most one, adds to total_similarity only when it *)
(* sets a flag that was clear, and leaves both word sequences alone.       *)
C6_FlagsShape ==
    pc = "loop" =>
        /\ Len(matched_flags) = Len(expected_words)
        /\ Cardinality(Flagged(matched_flags)) <= Min(k, Len(expected_words))

C6_StepKeepsFlags ==
    pc = "loop" =>
        /\ Flagged(matched_flags) \subseteq Flagged(matched_flags')
        /\ Cardinality(Flagged(matched_flags') \ Flagged(matched_flags)) <= 1
        /\ total_similarity' # total_similarity =>
              Cardinality(Flagged(matched_flags') \ Flagged(matched_flags)) = 1
        /\ transcribed_words' = transcribed_words
        /\ expected_words' = expected_words

C6_MatchState == []C6_FlagsShape /\ [][C6_StepKeepsFlags]_vars

C6_Witness ==
    /\ pc = "loop"
    /\ k = 2
    /\ Len(expected_words) = 1
    /\ matched_flags = <<TRUE>>

(* C7: each transcribed word takes the smallest unmatched index whose      *)
(* similarity is the maximum over the unmatched expected words, and only   *)
(* if that maximum is above 0; otherwise it sets no flag and adds nothing. *)
C7_Step ==
    (pc = "loop" /\ k' = k + 1) =>
        LET t == transcribed_words[k + 1]
            U == {i \in DOMAIN expected_words : ~matched_flags[i]}
            sim(i) == similarity(t, expected_words[i]).value
        IN IF U = {} \/ \A i \in U : ~FracGT(sim(i), Zero)
           THEN matched_flags' = matched_flags /\ total_similarity' = total_similarity
           ELSE LET Best == {i \in U : \A j \in U : FracLE(sim(j), sim(i))}
                    first == CHOOSE i \in Best : \A j \in Best : i <= j
                IN /\ matched_flags' = [matched_flags EXCEPT ![first] = TRUE]
                   /\ total_similarity' = FracAdd(total_similarity, sim(first))

C7_GreedyChoice == [][C7_Step]_vars

C7_Witness ==
    /\ pc = "loop"
    /\ k = 1
    /\ Len(expected_words) = 2
    /\ expected_words[1] = expected_words[2]
    /\ transcribed_words[1] = expected_words[1]
    /\ matched_flags = <<TRUE, FALSE>>

(* C10: on the same pair of word sequences the loop of app.py and the one  *)
(* of test_model_accuracy.py hold the same matched_flags and               *)
(* total_similarity after every transcribed word and return the same score. *)
C10_SameLoop ==
    ( /\ transcribed_words = tm_transcribed_words
      /\ expected_words = tm_expected_words
      /\ pc = tm_pc
      /\ k = tm_k ) =>
        /\ matched_flags = tm_matched_flags
        /\ total_similarity = tm_total_similarity
        /\ result = tm_result

C10_Witness ==
    /\ pc = "return"
    /\ tm_pc = "return"
    /\ transcribed_words = tm_transcribed_words
    /\ expected_words = tm_expected_words
    /\ k = 2
    /\ tm_k = 2
    /\ Cardinality(Flagged(matched_flags)) = 1
    /\ FracGT(result, Zero)

----------------------------------------------------------------------------
(* Properties of the Streamlit session (under AppSpec)                     *)

RecordingStates == {"stopped", "recording", "processing"}

AllowedTransitions ==
    { <<"stopped", "recording">>, <<"recording", "processing">>,
      <<"processing", "stopped">> }

(* C8: recording_state starts as 'stopped', only ever holds 'stopped',     *)
(* 'recording' or 'processing', and every change of its value is one of    *)
(* stopped -> recording, recording -> processing, processing -> stopped.   *)
C8_Step ==
    recording_state' # recording_state =>
        <<recording_state, recording_state'>> \in AllowedTransitions

C8_OnlyThreeTransitions ==
    /\ recording_state = "stopped"
    /\ [](recording_state \in RecordingStates)
    /\ [][C8_Step]_vars

(* C9: whenever recording_state is 'recording' it is 'stopped' again later, *)
(* script reruns being executed, with no further Record click needed.       *)
C9_RecordingEnds == (recording_state = "recording") ~> (recording_state = "stopped")

====
